---- MODULE Spec2Model ----
(***************************************************************************)
(* Model of the olo-id identifier engine: the process-wide syntax registry *)
(* (OloIdSyntax), the single identifier (OloId) and the identifier set     *)
(* (OloIdSet).                                                             *)
(*                                                                         *)
(* A JavaScript string is a sequence of one-character strings, so that     *)
(* split and join are computed, not assumed.  A JavaScript value stored in *)
(* a key/value map is a record [t, v]: t is its typeof, v its String().    *)
(***************************************************************************)
EXTENDS Integers, Sequences, FiniteSets, TLC

VARIABLES
    separator,   \* OloIdSyntax.separator (static)
    syntaxes,    \* OloIdSyntax.syntaxes (static Set<string>, in insertion order)
    last         \* the call most recently made: receiver, arguments, registry before
                 \* it, and what it returned (a constructor returns the new object)

vars == <<separator, syntaxes, last>>

---------------------------------------------------------------------------
(* Bounds of the model *)

\* the registry holds at most this many syntaxes
MaxSyntaxes == 3

---------------------------------------------------------------------------
(* Program constants *)

ID_TYPE_UNDEFINED == <<"U", "N", "D", "E", "F", "I", "N", "E", "D">>

ID_PROP_UNDEFINED == <<"U", "N", "D", "E", "F", "I", "N", "E", "D">>

ID_TYPE_SEPARATOR == "/"

\* the value of a variable, option or argument that was never given
undefined == "undefined"

---------------------------------------------------------------------------
(* JavaScript strings, arrays and Set<string> *)

Range(s) == {s[i] : i \in DOMAIN s}

\* the characters of the model in ascending UTF-16 code unit order
CodeUnits ==
    <<"-", "/", "0", "1", "D", "E", "F", "I", "N", "U", "a", "b", "c", "d", "e", "i",
      "m", "n", "o", "p", "r", "s", "t", "u", "v", "x", "y">>

Ord(c) == CHOOSE i \in DOMAIN CodeUnits : CodeUnits[i] = c

\* s < t as Array.prototype.sort's default comparator orders two strings
RECURSIVE StrLess(_, _)
StrLess(s, t) ==
    IF Len(t) = 0 THEN FALSE
    ELSE IF Len(s) = 0 THEN TRUE
    ELSE IF s[1] # t[1] THEN Ord(s[1]) < Ord(t[1])
    ELSE StrLess(Tail(s), Tail(t))

\* Array.prototype.sort() of the strings of a set
RECURSIVE SortStrings(_)
SortStrings(S) ==
    IF S = {} THEN <<>>
    ELSE LET m == CHOOSE x \in S : \A y \in S \ {x} : StrLess(x, y)
         IN <<m>> \o SortStrings(S \ {m})

\* String.prototype.split with a one-character separator
RECURSIVE Split(_, _)
Split(s, sep) ==
    IF \A i \in DOMAIN s : s[i] # sep THEN <<s>>
    ELSE LET i == CHOOSE j \in DOMAIN s : s[j] = sep /\ \A k \in 1..(j - 1) : s[k] # sep
         IN <<SubSeq(s, 1, i - 1)>> \o Split(SubSeq(s, i + 1, Len(s)), sep)

\* Array.prototype.join of an array of strings with a one-character separator
RECURSIVE Join(_, _)
Join(list, sep) ==
    IF Len(list) = 0 THEN <<>>
    ELSE IF Len(list) = 1 THEN list[1]
    ELSE list[1] \o <<sep>> \o Join(Tail(list), sep)

\* a delete that leaves the set as it is
SetDeleteSkipped(set, s) == set

\* Set.prototype.delete and Set.prototype.add on an insertion-ordered set
SetDelete(set, s) == SelectSeq(set, LAMBDA x : x # s)

SetAdd(set, s) == IF s \in Range(set) THEN set ELSE Append(set, s)

---------------------------------------------------------------------------
(* Arguments: a syntax is given as a string, an array of names or a        *)
(* key/value map (OloUri); an omitted argument is Undefined.               *)

StringArg(s) == [k |-> "string", v |-> s]
ArrayArg(a)  == [k |-> "array", v |-> a]
ObjectArg(m) == [k |-> "object", v |-> m]
Undefined    == [k |-> "undefined", v |-> <<>>]

---------------------------------------------------------------------------
(* class OloIdSyntax *)

getSyntaxMatrix(set, sep) == [i \in DOMAIN set |-> Split(set[i], sep)]

normSyntax(syntax, sep) ==
    SelectSeq(CASE syntax.k = "string" -> Split(syntax.v, sep)
                [] syntax.k = "array"  -> syntax.v
                [] syntax.k = "object" -> SortStrings(DOMAIN syntax.v)
                [] OTHER               -> <<>>,
              LAMBDA syntaxItem : Len(syntaxItem) > 0)

\* a registration that leaves the sentinel in the set
addSyntaxKeepingSentinel(inputSyntax, sep, set) ==
    IF Len(inputSyntax) > 0 THEN SetAdd(set, Join(inputSyntax, sep)) ELSE set

\* a registration that evicts the sentinel for an empty syntax too
addSyntaxEvicting(inputSyntax, sep, set) ==
    IF Len(inputSyntax) > 0
    THEN SetAdd(SetDelete(set, ID_TYPE_UNDEFINED), Join(inputSyntax, sep))
    ELSE SetDelete(set, ID_TYPE_UNDEFINED)

\* the body of registerSyntaxes' forEach, for one syntax
addSyntax(inputSyntax, sep, set) ==
    IF Len(inputSyntax) > 0
    THEN SetAdd(SetDelete(set, ID_TYPE_UNDEFINED), Join(inputSyntax, sep))
    ELSE set

\* a registration that replaces what the set held
registerSyntaxReplacing(syntax, sep, set) ==
    IF Len(normSyntax(syntax, sep)) > 0 THEN <<Join(normSyntax(syntax, sep), sep)>> ELSE set

registerSyntax(syntax, sep, set) == addSyntax(normSyntax(syntax, sep), sep, set)

\* registerSyntaxes, returning the set it leaves
RECURSIVE registerSyntaxes(_, _, _)
registerSyntaxes(list, sep, set) ==
    IF Len(list) = 0 THEN set
    ELSE registerSyntaxes(Tail(list), sep, registerSyntax(list[1], sep, set))

\* a constructor that assigns the requested separator every time
ctorSeparatorAssigned(sep, seperator) ==
    IF seperator = undefined THEN ID_TYPE_SEPARATOR ELSE seperator

\* the constructor's effect on the static separator
ctorSeparator(sep, seperator) ==
    IF sep = undefined
    THEN (IF seperator = undefined THEN ID_TYPE_SEPARATOR ELSE seperator)
    ELSE sep

\* the constructor's effect on the static state
OloIdSyntaxCtor(list, seperator, sep, set) ==
    [separator |-> ctorSeparator(sep, seperator),
     syntaxes  |-> registerSyntaxes(IF list.k = "undefined"
                                    THEN <<StringArg(ID_TYPE_UNDEFINED)>>
                                    ELSE list.v,
                                    ctorSeparator(sep, seperator), set)]

\* syntaxMatcher(testSyntax) && syntax.length === inputSyntax.length
syntaxMatcher(testSyntax, inputSyntax) ==
    /\ \A i \in DOMAIN testSyntax : testSyntax[i] \in Range(inputSyntax)
    /\ Len(testSyntax) = Len(inputSyntax)

\* Array.prototype.find: the index of the first syntax of the matrix that matches, or 0
findIndex(matrix, inputSyntax) ==
    IF \E i \in DOMAIN matrix : syntaxMatcher(matrix[i], inputSyntax)
    THEN CHOOSE i \in DOMAIN matrix :
            /\ syntaxMatcher(matrix[i], inputSyntax)
            /\ \A j \in 1..(i - 1) : ~syntaxMatcher(matrix[j], inputSyntax)
    ELSE 0

\* a resolve that registers an unmatched syntax whatever the register option says
resolveRegistering(inputSyntax, matrix, index, register, sep, set) ==
    IF Len(inputSyntax) = 0 THEN [result |-> matrix, syntaxes |-> set]
    ELSE IF index = 0
    THEN [result   |-> <<inputSyntax>>,
          syntaxes |-> SetAdd(SetDelete(set, ID_TYPE_UNDEFINED), Join(inputSyntax, sep))]
    ELSE [result |-> <<matrix[index]>>, syntaxes |-> set]

\* a resolve that returns nothing for an empty query
resolveEmptyToNone(inputSyntax, matrix, index, register, sep, set) ==
    IF Len(inputSyntax) = 0 THEN [result |-> <<>>, syntaxes |-> set]
    ELSE IF index = 0
    THEN [result   |-> <<inputSyntax>>,
          syntaxes |-> IF register
                       THEN SetAdd(SetDelete(set, ID_TYPE_UNDEFINED), Join(inputSyntax, sep))
                       ELSE set]
    ELSE [result |-> <<matrix[index]>>, syntaxes |-> set]

\* getSyntaxes once the input is normalized and the first match looked up
resolveSyntaxes(inputSyntax, matrix, index, register, sep, set) ==
    IF Len(inputSyntax) = 0 THEN [result |-> matrix, syntaxes |-> set]
    ELSE IF index = 0
    THEN [result   |-> <<inputSyntax>>,
          syntaxes |-> IF register
                       THEN registerSyntaxes(<<ArrayArg(inputSyntax)>>, sep, set)
                       ELSE set]
    ELSE [result |-> <<matrix[index]>>, syntaxes |-> set]

\* getSyntaxes: its return value and the set it leaves
getSyntaxes(syntax, register, sep, set) ==
    resolveSyntaxes(normSyntax(syntax, sep), getSyntaxMatrix(set, sep),
                    findIndex(getSyntaxMatrix(set, sep), normSyntax(syntax, sep)),
                    register, sep, set)

\* setSyntaxes once the list is registered
registered(set, sep) == [result |-> getSyntaxMatrix(set, sep), syntaxes |-> set]

\* setSyntaxes: its return value and the set it leaves
setSyntaxes(list, sep, set) ==
    IF list.k # "undefined"
    THEN registered(registerSyntaxes(list.v, sep, set), sep)
    ELSE getSyntaxes(list, FALSE, sep, set)

---------------------------------------------------------------------------
(* JavaScript values held by a key/value map (OloUri) *)

Str(s) == [t |-> "string", v |-> s]
Num(s) == [t |-> "number", v |-> s]
UndefinedValue == [t |-> "undefined", v |-> <<>>]

\* a read that yields the placeholder for a key the map does not have
LookupPlaceholder(map, key) == IF key \in DOMAIN map THEN map[key] ELSE Str(ID_PROP_UNDEFINED)

\* obj[key]
Lookup(map, key) == IF key \in DOMAIN map THEN map[key] ELSE UndefinedValue

\* !value
Falsy(value) ==
    \/ value.t = "undefined"
    \/ value.t = "string" /\ value.v = <<>>
    \/ value.t = "number" /\ value.v = <<"0">>

\* a value stored as it was given
OrUndefinedSkipped(value) == value

\* value || ID_PROP_UNDEFINED
OrUndefined(value) == IF Falsy(value) THEN Str(ID_PROP_UNDEFINED) ELSE value

\* array[index], index counted from 1, of an array of strings
At(list, index) == IF index \in DOMAIN list THEN Str(list[index]) ELSE UndefinedValue

\* the last index at which an array holds a name: the assignment that stays
LastIndex(list, name) ==
    CHOOSE i \in DOMAIN list : list[i] = name /\ \A j \in DOMAIN list : list[j] = name => j <= i

NoObject == [kind |-> "none"]

Options(syntax, register, sep) == [syntax |-> syntax, register |-> register, separator |-> sep]

---------------------------------------------------------------------------
(* class OloId.  An instance is [kind, syntax, separator, uri]; a           *)
(* constructor yields [ok, obj, separator, syntaxes]: whether it returned  *)
(* or threw, the instance, and the static state it leaves.                 *)

OloIdArg(id) == [k |-> "OloId", v |-> id]

\* this.uri as the constructor's forEach fills it
OloIdValues(uri, workingUri, thisSyntax, thisSeparator) ==
    [identifierProperty \in Range(thisSyntax) |->
        IF workingUri.k # "undefined"
        THEN OrUndefined(Lookup(workingUri.v, identifierProperty))
        ELSE OrUndefined(At(Split(uri.v, thisSeparator),
                            LastIndex(thisSyntax, identifierProperty)))]

\* isOloId(uri) ? uri.toJSON() : typeof uri === 'string' ? undefined : uri
workingUriOf(uri) ==
    CASE uri.k = "OloId"  -> ObjectArg(uri.v.uri)
      [] uri.k = "string" -> Undefined
      [] OTHER            -> uri

\* the constructor from this.syntax = getSyntaxes(...)[0] on; it throws at
\* this.syntax.forEach on undefined and at (uri as string).split on undefined
OloIdFill(uri, workingUri, thisSeparator, sep, found) ==
    IF \/ Len(found.result) = 0
       \/ workingUri.k = "undefined" /\ uri.k # "string" /\ Len(found.result[1]) > 0
    THEN [ok |-> FALSE, obj |-> NoObject, separator |-> sep, syntaxes |-> found.syntaxes]
    ELSE [ok |-> TRUE,
          obj |-> [kind      |-> "OloId",
                   syntax    |-> found.result[1],
                   separator |-> thisSeparator,
                   uri       |-> OloIdValues(uri, workingUri, found.result[1],
                                             thisSeparator)],
          separator |-> sep, syntaxes |-> found.syntaxes]

\* the constructor after its field initializer new OloIdSyntax() left field
OloIdBody(uri, options, field) ==
    OloIdFill(uri, workingUriOf(uri),
              IF options.separator = undefined THEN field.separator ELSE options.separator,
              field.separator,
              getSyntaxes(IF options.syntax.k # "undefined" THEN options.syntax
                          ELSE workingUriOf(uri),
                          options.register, field.separator, field.syntaxes))

OloIdCtor(uri, options, sep, set) ==
    OloIdBody(uri, options, OloIdSyntaxCtor(Undefined, undefined, sep, set))

\* (Array.isArray(syntax) ? syntax : syntax?.split(this.separator)) ?? this.syntax
syntaxListOf(this, syntax) ==
    CASE syntax.k = "array"  -> syntax.v
      [] syntax.k = "string" -> Split(syntax.v, this.separator)
      [] OTHER               -> this.syntax

\* the reduce of isSame that maps a string onto the names of syntaxList
compString(syntaxList, identifier, parts) ==
    [key \in Range(syntaxList) |->
        IF Len(syntaxList) = 1 THEN Str(identifier)
        ELSE IF LastIndex(syntaxList, key) \in DOMAIN parts
        THEN Str(parts[LastIndex(syntaxList, key)])
        ELSE Str(<<>>)]

\* the comparison map isSame builds from its argument
compId(this, identifier, syntax) ==
    CASE identifier.k = "OloId"  -> identifier.v.uri
      [] identifier.k = "string" ->
           compString(syntaxListOf(this, syntax), identifier.v,
                      Split(identifier.v, this.separator))
      [] identifier.k = "object" -> identifier.v
      \* any other object: none of its fields is a string or a number
      [] OTHER                   -> <<>>

\* a reduce that forgets a mismatch found at an earlier key
RECURSIVE isSameReduceForgetting(_, _, _, _)
isSameReduceForgetting(keys, comp, uri, result) ==
    IF Len(keys) = 0 THEN result
    ELSE isSameReduceForgetting(Tail(keys), comp, uri, Lookup(comp, keys[1]) = uri[keys[1]])

\* the reduce of isSame over Object.keys(this.uri)
RECURSIVE isSameReduce(_, _, _, _)
isSameReduce(keys, comp, uri, result) ==
    IF Len(keys) = 0 THEN result
    ELSE isSameReduce(Tail(keys), comp, uri,
                      IF ~result THEN result ELSE Lookup(comp, keys[1]) = uri[keys[1]])

\* a comparison over the keys both sides have, rather than the receiver's
isSameOverShared(this, identifier, syntax) ==
    LET comp == compId(this, identifier, syntax)
        Shared(key) == key \in DOMAIN comp
    IN isSameReduce(SelectSeq(this.syntax, Shared), comp, this.uri, TRUE)

isSame(this, identifier, syntax) ==
    isSameReduce(this.syntax, compId(this, identifier, syntax), this.uri, TRUE)

toSyntaxString(this) == Join(this.syntax, this.separator)

toString(this) == Join([i \in DOMAIN this.syntax |-> this.uri[this.syntax[i]].v],
                       this.separator)

toJSON(this) == this.uri

---------------------------------------------------------------------------
(* class OloIdSet.  An instance is [kind, uri]; uri is the OloIdMap, the   *)
(* array of its [key, id] entries in insertion order.                      *)

OloIdSetArg(set) == [k |-> "OloIdSet", v |-> set]
OloIdMapArg(map) == [k |-> "OloIdMap", v |-> map]

Keys(map) == [i \in DOMAIN map |-> map[i].key]

\* map[key] = id
Put(map, key, id) ==
    IF \E i \in DOMAIN map : map[i].key = key
    THEN [i \in DOMAIN map |-> IF map[i].key = key THEN [key |-> key, id |-> id] ELSE map[i]]
    ELSE Append(map, [key |-> key, id |-> id])

\* map[key], as a constructor argument
Get(map, key) ==
    IF \E i \in DOMAIN map : map[i].key = key
    THEN OloIdArg(map[CHOOSE i \in DOMAIN map : map[i].key = key].id)
    ELSE Undefined

\* Object.assign(json, uri)
Assign(json, uri) ==
    [key \in DOMAIN json \cup DOMAIN uri |-> IF key \in DOMAIN uri THEN uri[key] ELSE json[key]]

\* toJSON(uri): the members' maps merged, a later member overwriting an earlier one
RECURSIVE setToJSON(_)
setToJSON(map) ==
    IF Len(map) = 0 THEN <<>>
    ELSE Assign(setToJSON(SubSeq(map, 1, Len(map) - 1)), map[Len(map)].id.uri)

\* one step of Object.keys(uri).map(...): the syntax found, before those of the rest
mapKey(found, rest) ==
    [items    |-> <<IF Len(found.result) = 0 THEN <<>> ELSE found.result[1]>> \o rest.items,
     syntaxes |-> rest.syntaxes]

\* Object.keys(uri).map(uriKey => getSyntaxes(uriKey, { register })[0])
RECURSIVE mapKeys(_, _, _, _)
mapKeys(keys, register, sep, set) ==
    IF Len(keys) = 0 THEN [items |-> <<>>, syntaxes |-> set]
    ELSE mapKey(getSyntaxes(StringArg(keys[1]), register, sep, set),
                mapKeys(Tail(keys), register, sep,
                        getSyntaxes(StringArg(keys[1]), register, sep, set).syntaxes))

\* this.uri[key] = the OloId just made, in acc = [ok, uri, separator, syntaxes]
putMade(acc, key, made) ==
    [ok        |-> made.ok,
     uri       |-> IF made.ok THEN Put(acc.uri, key, made.obj) ELSE acc.uri,
     separator |-> made.separator,
     syntaxes  |-> made.syntaxes]

\* (syntaxItem ?? []).join(separator ?? this.oloIdSyntax.getSeparator())
syntaxKeyOf(syntaxItem, options, sep) ==
    Join(syntaxItem, IF options.separator = undefined THEN sep ELSE options.separator)

\* the forEach of the OloIdMap branch
RECURSIVE adoptEach(_, _, _, _)
adoptEach(items, uri, options, acc) ==
    IF Len(items) = 0 \/ ~acc.ok THEN acc
    ELSE adoptEach(Tail(items), uri, options,
                   putMade(acc, syntaxKeyOf(items[1], options, acc.separator),
                           OloIdCtor(Get(uri, syntaxKeyOf(items[1], options, acc.separator)),
                                     options, acc.separator, acc.syntaxes)))

\* this.uri[id.toSyntaxString()] = id
putById(acc, made) ==
    putMade(acc, IF made.ok THEN toSyntaxString(made.obj) ELSE <<>>, made)

\* the forEach of the OloUri branch
RECURSIVE buildEach(_, _, _, _)
buildEach(items, workingUri, options, acc) ==
    IF Len(items) = 0 \/ ~acc.ok THEN acc
    ELSE buildEach(Tail(items), workingUri, options,
                   putById(acc, OloIdCtor(workingUri,
                                          Options(ArrayArg(items[1]), FALSE,
                                                  options.separator),
                                          acc.separator, acc.syntaxes)))

\* Object.values(uri).every(isOloId), for an argument that is no string
everyIsOloId(uri) ==
    \/ uri.k = "OloIdMap"
    \/ uri.k = "object" /\ DOMAIN uri.v = {}

\* the state a branch of the constructor starts its forEach from
startOf(field, set) ==
    [ok |-> TRUE, uri |-> <<>>, separator |-> field.separator, syntaxes |-> set]

\* the OloIdMap branch
adopt(map, options, field, items) ==
    adoptEach(items.items, map, options, startOf(field, items.syntaxes))

\* the OloUri branch
build(workingUri, options, field, found) ==
    buildEach(found.result, workingUri, options, startOf(field, found.syntaxes))

\* the constructor after its field initializer new OloIdSyntax() left field
OloIdSetBody(uri, options, field) ==
    IF uri.k = "string"
    THEN putById(startOf(field, field.syntaxes),
                 OloIdCtor(uri, options, field.separator, field.syntaxes))
    ELSE IF everyIsOloId(uri)
    THEN adopt(IF uri.k = "OloIdMap" THEN uri.v ELSE <<>>, options, field,
               mapKeys(IF uri.k = "OloIdMap" THEN Keys(uri.v) ELSE <<>>,
                       options.register, field.separator, field.syntaxes))
    ELSE build(IF uri.k = "OloIdSet" THEN ObjectArg(setToJSON(uri.v.uri)) ELSE uri,
               options, field,
               getSyntaxes(IF uri.k = "OloIdSet" THEN ObjectArg(setToJSON(uri.v.uri))
                           ELSE uri,
                           options.register, field.separator, field.syntaxes))

\* what the constructor yields, from the state its forEach ends in
OloIdSetMade(done) ==
    [ok        |-> done.ok,
     obj       |-> IF done.ok THEN [kind |-> "OloIdSet", uri |-> done.uri] ELSE NoObject,
     separator |-> done.separator,
     syntaxes  |-> done.syntaxes]

OloIdSetCtor(uri, options, sep, set) ==
    OloIdSetMade(OloIdSetBody(uri, options, OloIdSyntaxCtor(Undefined, undefined, sep, set)))

\* a reduce that asks every member to match
RECURSIVE setIsSameReduceEvery(_, _, _, _)
setIsSameReduceEvery(map, id, syntax, result) ==
    IF Len(map) = 0 THEN result
    ELSE setIsSameReduceEvery(Tail(map), id, syntax, result /\ isSame(map[1].id, id, syntax))

\* the reduce of OloIdSet.isSame over Object.values(this.uri)
RECURSIVE setIsSameReduce(_, _, _, _)
setIsSameReduce(map, id, syntax, result) ==
    IF Len(map) = 0 THEN result
    ELSE setIsSameReduce(Tail(map), id, syntax, result \/ isSame(map[1].id, id, syntax))

setIsSame(this, identifier, syntax) ==
    setIsSameReduce(this.uri,
                    IF identifier.k = "OloIdSet"
                    THEN ObjectArg(setToJSON(identifier.v.uri))
                    ELSE identifier,
                    syntax, FALSE)

setToString(this) == Join([i \in DOMAIN this.uri |-> toString(this.uri[i].id)], " ")

---------------------------------------------------------------------------
(* The state machine.  Every action takes the set of arguments its caller  *)
(* chooses from, so that one action serves several specifications.         *)

Call(op, this, arg, options, ok, result) ==
    [op |-> op, this |-> this, arg |-> arg, options |-> options,
     pre |-> syntaxes, ok |-> ok, result |-> result]

NoOptions == Options(Undefined, FALSE, undefined)

\* the object the caller holds: the one constructed last
Current == IF last.op \in {"OloId", "OloIdSet"} /\ last.ok THEN last.result ELSE NoObject

Init ==
    /\ separator = undefined
    /\ syntaxes = <<>>
    /\ last = [op |-> "none", this |-> NoObject, arg |-> Undefined, options |-> NoOptions,
               pre |-> <<>>, ok |-> TRUE, result |-> <<>>]

\* new OloIdSyntax(list, { seperator })
NewOloIdSyntax(lists, seperators) ==
    \E list \in lists, seperator \in seperators :
        LET r == OloIdSyntaxCtor(list, seperator, separator, syntaxes)
        IN /\ Len(r.syntaxes) <= MaxSyntaxes
           /\ separator' = r.separator
           /\ syntaxes' = r.syntaxes
           /\ last' = Call("OloIdSyntax", NoObject, list,
                           Options(Undefined, FALSE, seperator), TRUE, <<>>)

\* oloIdSyntax.setSyntaxes(list), on an instance constructed earlier
SetSyntaxes(lists) ==
    \E list \in lists :
        LET r == setSyntaxes(list, separator, syntaxes)
        IN /\ separator # undefined
           /\ Len(r.syntaxes) <= MaxSyntaxes
           /\ syntaxes' = r.syntaxes
           /\ last' = Call("setSyntaxes", NoObject, list, NoOptions, TRUE, r.result)
           /\ UNCHANGED separator

\* oloIdSyntax.getSyntaxes(syntax, { register }), on an instance constructed earlier
GetSyntaxes(queries) ==
    \E syntax \in queries, register \in BOOLEAN :
        LET r == getSyntaxes(syntax, register, separator, syntaxes)
        IN /\ separator # undefined
           /\ Len(r.syntaxes) <= MaxSyntaxes
           /\ syntaxes' = r.syntaxes
           /\ last' = Call("getSyntaxes", NoObject, syntax,
                           Options(Undefined, register, undefined), TRUE, r.result)
           /\ UNCHANGED separator

\* the OloId the caller holds, as the argument of a copy
HeldOloId ==
    IF Current.kind = "OloId"
    THEN [uri : {OloIdArg(Current)}, options : {NoOptions}]
    ELSE {}

\* new OloId(uri, { syntax, register, separator })
NewOloId(calls) ==
    \E call \in calls \cup HeldOloId :
        LET r == OloIdCtor(call.uri, call.options, separator, syntaxes)
        IN /\ Len(r.syntaxes) <= MaxSyntaxes
           /\ separator' = r.separator
           /\ syntaxes' = r.syntaxes
           /\ last' = Call("OloId", NoObject, call.uri, call.options, r.ok, r.obj)

\* the OloIdSet the caller holds and its map, or a map holding the OloId it holds
HeldOloIdSet ==
    (IF Current.kind = "OloIdSet"
     THEN [uri : {OloIdSetArg(Current), OloIdMapArg(Current.uri)}, options : {NoOptions}]
     ELSE {})
    \cup (IF Current.kind = "OloId"
          THEN [uri     : {OloIdMapArg(<<[key |-> toSyntaxString(Current), id |-> Current]>>)},
                options : {NoOptions}]
          ELSE {})

\* new OloIdSet(uri, { syntax, register, separator })
NewOloIdSet(calls) ==
    \E call \in calls \cup HeldOloIdSet :
        LET r == OloIdSetCtor(call.uri, call.options, separator, syntaxes)
        IN /\ Len(r.syntaxes) <= MaxSyntaxes
           /\ separator' = r.separator
           /\ syntaxes' = r.syntaxes
           /\ last' = Call("OloIdSet", NoObject, call.uri, call.options, r.ok, r.obj)

\* isSame of either class
Same(this, identifier, syntax) ==
    IF this.kind = "OloIdSet" THEN setIsSame(this, identifier, syntax)
    ELSE isSame(this, identifier, syntax)

\* current.isSame(identifier, { syntax }) with a string or a key/value map
IsSame(comparisons) ==
    \E comparison \in comparisons :
        /\ Current.kind # "none"
        /\ last' = Call("isSame", Current, comparison.identifier,
                        Options(comparison.syntax, FALSE, undefined), TRUE,
                        Same(Current, comparison.identifier, comparison.syntax))
        /\ UNCHANGED <<separator, syntaxes>>

\* current.isSame(other), other an OloId or OloIdSet constructed for the comparison
IsSameObject(calls, classes) ==
    \E call \in calls, class \in classes :
        LET r == IF class = "OloId"
                 THEN OloIdCtor(call.uri, call.options, separator, syntaxes)
                 ELSE OloIdSetCtor(call.uri, call.options, separator, syntaxes)
            other == IF class = "OloId" THEN OloIdArg(r.obj) ELSE OloIdSetArg(r.obj)
        IN /\ Current.kind # "none"
           /\ r.ok
           /\ Len(r.syntaxes) <= MaxSyntaxes
           /\ separator' = r.separator
           /\ syntaxes' = r.syntaxes
           /\ last' = Call("isSame", Current, other, NoOptions,
                           TRUE, Same(Current, other, Undefined))

---------------------------------------------------------------------------
(* Names and values of the inputs *)

a == <<"a">>
b == <<"b">>
c == <<"c">>
d == <<"d">>

x == Str(<<"x">>)
y == Str(<<"y">>)

\* the separator a caller writes its strings with: the one in force
Sep == IF separator = undefined THEN ID_TYPE_SEPARATOR ELSE separator

\* names or values written as one string
Path(parts) == StringArg(Join(parts, Sep))

---------------------------------------------------------------------------
(* Spec: the registry under every call that reaches it *)

\* the separators a caller asks for
Separators == {undefined, "/", "-"}

\* lists of syntaxes given to new OloIdSyntax
CtorLists == {Undefined, ArrayArg(<<>>), ArrayArg(<<ArrayArg(<<a, b>>)>>)}

\* lists of syntaxes given to setSyntaxes
SyntaxLists ==
    { Undefined, ArrayArg(<<>>),
      ArrayArg(<<ArrayArg(<<a, b>>)>>), ArrayArg(<<ArrayArg(<<b, a>>)>>),
      ArrayArg(<<ArrayArg(<<c, d>>)>>), ArrayArg(<<Path(<<b, a>>)>>),
      ArrayArg(<<StringArg(<<>>)>>), ArrayArg(<<ArrayArg(<<>>)>>),
      ArrayArg(<<StringArg(<<Sep>>)>>) }

\* what getSyntaxes is asked for
Queries ==
    { Undefined, StringArg(<<>>), ArrayArg(<<>>), ObjectArg(<<>>),
      ArrayArg(<<a, b>>), ArrayArg(<<b, a>>), Path(<<b, a>>),
      ObjectArg(b :> x @@ a :> y), ArrayArg(<<c, d>>), ArrayArg(<<a>>) }

\* constructions of OloId and OloIdSet, for what they do to the registry
RegistryCalls ==
    { [uri |-> Path(<<<<"x">>, <<"y">>>>), options |-> NoOptions],
      [uri |-> Path(<<<<"x">>, <<"y">>>>),
       options |-> Options(ArrayArg(<<a, b>>), TRUE, undefined)],
      [uri |-> StringArg(<<"x", "-", "y">>),
       options |-> Options(ArrayArg(<<b, a>>), FALSE, "-")],
      [uri |-> ObjectArg(c :> x @@ d :> y), options |-> NoOptions],
      [uri |-> ObjectArg(c :> x @@ d :> y), options |-> Options(Undefined, TRUE, "-")] }

Next ==
    \/ NewOloIdSyntax(CtorLists, Separators)
    \/ SetSyntaxes(SyntaxLists)
    \/ GetSyntaxes(Queries)
    \/ NewOloId(RegistryCalls)
    \/ NewOloIdSet(RegistryCalls)

Spec == Init /\ [][Next]_vars

---------------------------------------------------------------------------
(* SpecId: one OloId, constructed and compared *)

one == Num(<<"1">>)

zero == Num(<<"0">>)

\* constructions of an OloId
IdCalls ==
    { [uri |-> Path(<<<<"x">>, <<"y">>>>),
       options |-> Options(ArrayArg(<<a, b>>), FALSE, undefined)],
      [uri |-> Path(<<<<"y">>, <<"x">>>>),
       options |-> Options(ArrayArg(<<b, a>>), TRUE, undefined)],
      [uri |-> Path(<<<<"x">>>>), options |-> NoOptions],
      [uri |-> ObjectArg(a :> x @@ b :> y), options |-> NoOptions],
      [uri |-> ObjectArg(a :> y @@ b :> y), options |-> NoOptions],
      [uri |-> ObjectArg(a :> x @@ b :> one), options |-> NoOptions],
      [uri |-> ObjectArg(a :> x @@ b :> UndefinedValue), options |-> NoOptions],
      [uri |-> ObjectArg(a :> x),
       options |-> Options(ArrayArg(<<a, b>>), FALSE, undefined)],
      [uri |-> Path(<<<<"x">>>>),
       options |-> Options(ArrayArg(<<a, b>>), FALSE, undefined)],
      [uri |-> Path(<<<<"y">>, <<"x">>>>),
       options |-> Options(ArrayArg(<<b, a>>), FALSE, undefined)],
      [uri |-> ObjectArg(a :> x), options |-> NoOptions],
      [uri |-> StringArg(<<"x", "-", "y">>),
       options |-> Options(StringArg(<<"a", "-", "b">>), FALSE, "-")],
      [uri |-> ObjectArg(a :> x @@ b :> zero), options |-> NoOptions],
      [uri |-> ObjectArg(a :> x @@ b :> Str(<<>>)), options |-> NoOptions],
      [uri |-> Path(<<<<"x">>, <<"y">>>>),
       options |-> Options(ArrayArg(<<a>>), FALSE, undefined)] }

\* strings and key/value maps an OloId is compared with
IdComparisons ==
    { [identifier |-> Path(<<<<"x">>, <<"y">>>>), syntax |-> Undefined],
      [identifier |-> Path(<<<<"y">>, <<"x">>>>), syntax |-> ArrayArg(<<b, a>>)],
      [identifier |-> Path(<<<<"x">>, <<"y">>>>), syntax |-> Path(<<a, b>>)],
      [identifier |-> Path(<<<<"x">>>>), syntax |-> Undefined],
      [identifier |-> ObjectArg(a :> x @@ b :> y), syntax |-> Undefined],
      [identifier |-> ObjectArg(a :> x @@ b :> y @@ c :> x), syntax |-> Undefined],
      [identifier |-> ObjectArg(a :> x), syntax |-> Undefined],
      [identifier |-> ObjectArg(a :> y @@ b :> y), syntax |-> Undefined],
      [identifier |-> ObjectArg(a :> x @@ b :> Str(<<"1">>)), syntax |-> Undefined],
      [identifier |-> Path(<<<<"x">>, <<"y">>>>), syntax |-> ArrayArg(<<a>>)],
      [identifier |-> Path(<<<<"x">>>>), syntax |-> ArrayArg(<<a, b>>)],
      [identifier |-> Path(<<<<"x">>, <<"u", "n", "d", "e", "f", "i", "n", "e", "d">>>>),
       syntax |-> ArrayArg(<<a, b>>)] }

NextId ==
    \/ NewOloId(IdCalls)
    \/ IsSame(IdComparisons)
    \/ IsSameObject(IdCalls, {"OloId"})

SpecId == Init /\ [][NextId]_vars

---------------------------------------------------------------------------
(* SpecSet: one OloIdSet, constructed and compared, with the syntaxes      *)
(* [type, id] and [username, domain] registered or not                     *)

type     == <<"t", "y", "p", "e">>
id       == <<"i", "d">>
username == <<"u", "s", "e", "r", "n", "a", "m", "e">>
domain   == <<"d", "o", "m", "a", "i", "n">>
name     == <<"n", "a", "m", "e">>

u == Str(<<"u">>)
v == Str(<<"v">>)

TypeId         == ArrayArg(<<type, id>>)
UsernameDomain == ArrayArg(<<username, domain>>)

\* key/value maps: both syntaxes, both with an extra key, either alone
BothMap   == ObjectArg(type :> x @@ id :> y @@ username :> u @@ domain :> v)
ExtraMap  == ObjectArg(type :> x @@ id :> y @@ username :> u @@ domain :> v @@ name :> x)
FirstMap  == ObjectArg(type :> x @@ id :> y)
SecondMap == ObjectArg(username :> u @@ domain :> v)
OtherMap  == ObjectArg(username :> x @@ domain :> v)

\* the value string of the first syntax
FirstString == Path(<<<<"x">>, <<"y">>>>)

\* lists of syntaxes given to new OloIdSyntax
SetCtorLists == {Undefined, ArrayArg(<<TypeId, UsernameDomain>>)}

\* an OloId of each syntax, as new OloId makes it
FirstId  == OloIdCtor(FirstMap, Options(TypeId, FALSE, undefined), undefined, <<>>).obj
SecondId == OloIdCtor(SecondMap, Options(UsernameDomain, FALSE, undefined), undefined, <<>>).obj

\* an OloIdMap holding both
BothIds ==
    OloIdMapArg(<<[key |-> toSyntaxString(FirstId), id |-> FirstId],
                  [key |-> toSyntaxString(SecondId), id |-> SecondId]>>)

\* an OloId of the first map, made while its syntax is not registered: its names
\* are the sorted keys
SortedId == OloIdCtor(FirstMap, NoOptions, undefined, <<>>).obj

\* an OloIdMap holding it
SortedIds == OloIdMapArg(<<[key |-> toSyntaxString(SortedId), id |-> SortedId]>>)

\* an OloId that holds another id than the first one
ClashId == OloIdCtor(ObjectArg(id :> x @@ name :> x), NoOptions, undefined, <<>>).obj

\* an OloIdMap holding both
ClashIds ==
    OloIdMapArg(<<[key |-> toSyntaxString(FirstId), id |-> FirstId],
                  [key |-> toSyntaxString(ClashId), id |-> ClashId]>>)

\* constructions of an OloIdSet
SetCalls ==
    { [uri |-> BothMap, options |-> NoOptions],
      [uri |-> BothMap, options |-> Options(Undefined, TRUE, undefined)],
      [uri |-> ExtraMap, options |-> NoOptions],
      [uri |-> FirstMap, options |-> NoOptions],
      [uri |-> SecondMap, options |-> NoOptions],
      [uri |-> OtherMap, options |-> NoOptions],
      [uri |-> FirstString, options |-> Options(TypeId, FALSE, undefined)],
      [uri |-> ObjectArg(<<>>), options |-> NoOptions],
      [uri |-> BothIds, options |-> NoOptions],
      [uri |-> SortedIds, options |-> NoOptions],
      [uri |-> ClashIds, options |-> NoOptions] }

\* constructions of an OloId an OloIdSet is compared with
SetIdCalls ==
    { [uri |-> FirstString, options |-> Options(TypeId, FALSE, undefined)],
      [uri |-> SecondMap, options |-> NoOptions],
      [uri |-> OtherMap, options |-> NoOptions] }

\* strings and key/value maps an OloIdSet is compared with
SetComparisons ==
    { [identifier |-> FirstString, syntax |-> TypeId],
      [identifier |-> FirstString, syntax |-> Undefined],
      [identifier |-> FirstMap, syntax |-> Undefined],
      [identifier |-> SecondMap, syntax |-> Undefined],
      [identifier |-> OtherMap, syntax |-> Undefined] }

NextSet ==
    \/ NewOloIdSyntax(SetCtorLists, {undefined})
    \/ NewOloIdSet(SetCalls)
    \/ IsSame(SetComparisons)
    \/ IsSameObject(SetCalls, {"OloIdSet"})
    \/ IsSameObject(SetIdCalls, {"OloId"})

SpecSet == Init /\ [][NextSet]_vars

---------------------------------------------------------------------------
(* Properties of OloIdSet, under SpecSet *)

\* the indices of the registered syntaxes all of whose names are keys of the map
Applicable(map, matrix) == {i \in DOMAIN matrix : Range(matrix[i]) \subseteq DOMAIN map}

\* C1: an OloIdSet constructed from a key/value map holds exactly one member for
\* each registered syntax whose names are all keys of the map; it holds a single
\* member over the full key set only when no registered syntax applies and
\* register is requested.
C1_OneMemberPerApplicableSyntax ==
    (last.op = "OloIdSet" /\ last.arg.k = "object" /\ last.ok) =>
        LET matrix     == getSyntaxMatrix(last.pre, separator)
            applicable == Applicable(last.arg.v, matrix)
            members    == last.result.uri
        IN IF applicable # {}
           THEN /\ Len(members) = Cardinality(applicable)
                /\ \A i \in applicable :
                      \E j \in DOMAIN members : members[j].id.syntax = matrix[i]
           ELSE last.options.register =>
                   /\ Len(members) = 1
                   /\ Range(members[1].id.syntax) = DOMAIN last.arg.v

\* both syntaxes of the scenario are registered
BothRegistered(set) ==
    {Join(<<type, id>>, Sep), Join(<<username, domain>>, Sep)} \subseteq Range(set)

\* the value strings toString joins with a space
Words(string) == Range(Split(string, " "))

\* C2: with [type, id] and [username, domain] registered, an OloIdSet built from a
\* map carrying values for both syntaxes (possibly with extra keys) has two
\* members, its toString() contains both value strings, and its isSame is true
\* against the value string of the first syntax (that syntax given), against a map
\* holding only the second syntax's properties, and against an OloIdSet built from
\* either shape alone.
C2_SetOfBothSyntaxes ==
    (/\ last.op = "OloIdSet"
     /\ last.arg \in {BothMap, ExtraMap}
     /\ BothRegistered(last.pre)
     /\ last.ok) =>
        LET set    == last.result
            first  == OloIdSetCtor(FirstString, Options(TypeId, FALSE, undefined),
                                   separator, syntaxes).obj
            second == OloIdSetCtor(SecondMap, NoOptions, separator, syntaxes).obj
        IN /\ Len(set.uri) = 2
           /\ {Join(<<x.v, y.v>>, Sep), Join(<<u.v, v.v>>, Sep)} \subseteq Words(setToString(set))
           /\ setIsSame(set, FirstString, TypeId)
           /\ setIsSame(set, SecondMap, Undefined)
           /\ setIsSame(set, OloIdSetArg(first), Undefined)
           /\ setIsSame(set, OloIdSetArg(second), Undefined)

\* some member of the set is the same as the identifier
SomeMemberIsSame(set, identifier, syntax) ==
    \E i \in DOMAIN set.uri : isSame(set.uri[i].id, identifier, syntax)

\* C3 as stated: for every OloIdSet set and every comparison value x (string,
\* key/value map, OloId or OloIdSet), set.isSame(x) is true if and only if at least
\* one member's isSame(x) is true; an empty set reports false for every x.
C3_OrLawOverMembers ==
    (last.op = "isSame" /\ last.this.kind = "OloIdSet") =>
        /\ last.result = SomeMemberIsSame(last.this, last.arg, last.options.syntax)
        /\ Len(last.this.uri) = 0 => ~last.result

\* C3 amended: for x a string, a key/value map or an OloId, set.isSame(x) is true
\* if and only if at least one member's isSame(x) is true; for x an OloIdSet it is
\* true if and only if at least one member's isSame is true of the key/value map
\* that merges the members of x; an empty set reports false for every x.
C3_OrLawOverMembersOfMergedMap ==
    (last.op = "isSame" /\ last.this.kind = "OloIdSet") =>
        /\ last.arg.k # "OloIdSet" =>
              last.result = SomeMemberIsSame(last.this, last.arg, last.options.syntax)
        /\ last.arg.k = "OloIdSet" =>
              last.result = SomeMemberIsSame(last.this,
                                             ObjectArg(setToJSON(last.arg.v.uri)),
                                             last.options.syntax)
        /\ Len(last.this.uri) = 0 => ~last.result

\* a set of two members was found the same as another set, by its second member
C3_Witness ==
    /\ last.op = "isSame"
    /\ last.this.kind = "OloIdSet"
    /\ Len(last.this.uri) = 2
    /\ last.arg.k = "OloIdSet"
    /\ last.result
    /\ ~isSame(last.this.uri[1].id, ObjectArg(setToJSON(last.arg.v.uri)), Undefined)

---------------------------------------------------------------------------
(* Properties of OloId, under SpecId *)

\* the key/value map without the names the syntax does not hold
Restrict(map, syntax) == [key \in DOMAIN map \cap Range(syntax) |-> map[key]]

\* C4: OloId.isSame(other) is true if and only if, for every property name in the
\* receiver's own syntax, the candidate's value for that name equals the
\* receiver's stored value; properties only the candidate carries never affect
\* the result.
C4_SameOverOwnProperties ==
    (last.op = "isSame" /\ last.this.kind = "OloId") =>
        LET this      == last.this
            candidate == compId(this, last.arg, last.options.syntax)
        IN /\ last.result =
                 \A key \in Range(this.syntax) : Lookup(candidate, key) = this.uri[key]
           /\ last.arg.k = "object" =>
                 last.result = isSame(this, ObjectArg(Restrict(last.arg.v, this.syntax)),
                                      last.options.syntax)

\* an OloId of two properties was found the same as a map carrying a third one
C4_Witness ==
    /\ last.op = "isSame"
    /\ last.this.kind = "OloId"
    /\ Len(last.this.syntax) = 2
    /\ last.arg = ObjectArg(a :> x @@ b :> y @@ c :> x)
    /\ last.result

---------------------------------------------------------------------------
(* Properties of the registry, under Spec *)

HoldsSentinel(set) == ID_TYPE_UNDEFINED \in Range(set)

HoldsReal(set) == \E i \in DOMAIN set : set[i] # ID_TYPE_UNDEFINED

\* C5: in every state reachable by registry constructions, setSyntaxes,
\* getSyntaxes (with or without register) and OloId/OloIdSet constructions, the
\* registry never holds the sentinel syntax ["UNDEFINED"] together with a real
\* syntax.
C5_SentinelNeverWithRealSyntax == ~(HoldsSentinel(syntaxes) /\ HoldsReal(syntaxes))

\* the call was a registration: setSyntaxes or getSyntaxes
Registration == last.op \in {"setSyntaxes", "getSyntaxes"}

\* what getSyntaxes() with no argument returns now
Resolved == getSyntaxes(Undefined, FALSE, separator, syntaxes).result

C7_NoTwoSyntaxesOfOneNameSet ==
    \A i, j \in DOMAIN syntaxes :
        i # j => Range(Split(syntaxes[i], separator)) # Range(Split(syntaxes[j], separator))

\* C8: for every registered syntax S and every query (string, name list or
\* key/value map) whose name set equals that of S, getSyntaxes(query) returns the
\* single-element result [S], whatever the order of the names in the query; a
\* query whose name set differs in size or members never matches S.
C8_ResolveReturnsTheRegisteredSyntax ==
    last.op = "getSyntaxes" =>
        LET query  == normSyntax(last.arg, separator)
            matrix == getSyntaxMatrix(last.pre, separator)
        IN \A i \in DOMAIN matrix :
              /\ (query # <<>> /\ Range(matrix[i]) = Range(query)) =>
                    last.result = <<matrix[i]>>
              /\ (query # <<>> /\ Range(matrix[i]) # Range(query)) =>
                    last.result # <<matrix[i]>>

\* C9: the process-wide separator is set exactly once: after the first
\* construction that sets it, no later construction of a registry, OloId or
\* OloIdSet, whatever separator it requests, changes what getSeparator() returns.
C9_SeparatorSetOnce == [][separator # undefined => separator' = separator]_vars

\* a later registry construction asked for another separator than the one in force
C9_Witness ==
    /\ last.op = "OloIdSyntax"
    /\ last.pre # <<>>
    /\ last.options.separator \notin {undefined, separator}

\* the query of the last getSyntaxes is not empty and no registered syntax has its names
Unmatched ==
    /\ last.op = "getSyntaxes"
    /\ normSyntax(last.arg, separator) # <<>>
    /\ \A i \in DOMAIN last.pre :
          Range(Split(last.pre[i], separator)) # Range(normSyntax(last.arg, separator))

\* C10: for a non-empty query that matches no registered syntax,
\* getSyntaxes(query, {register}) returns the single-element result holding the
\* normalized query; the registry afterwards contains that syntax, appended after
\* the existing ones, if and only if register is true; with register false the
\* registry is left unchanged.
C10_UnmatchedQuery ==
    Unmatched =>
        LET query == normSyntax(last.arg, separator)
        IN /\ last.result = <<query>>
           /\ Join(query, separator) \in Range(syntaxes) <=> last.options.register
           /\ last.options.register =>
                 syntaxes = Append(SetDelete(last.pre, ID_TYPE_UNDEFINED),
                                   Join(query, separator))
           /\ ~last.options.register => syntaxes = last.pre

\* an unmatched query was registered after a real syntax
C10_Witness ==
    /\ Unmatched
    /\ last.options.register
    /\ HoldsReal(last.pre)
    /\ syntaxes[Len(syntaxes)] = Join(normSyntax(last.arg, separator), separator)

---------------------------------------------------------------------------
(* Properties of the constructions' effect on the registry, under Spec *)

\* the call constructed an OloId or an OloIdSet in a process that has a registry
Construction == last.op \in {"OloId", "OloIdSet"} /\ last.pre # <<>>

\* C11: constructing an OloId or OloIdSet with register false (the default)
\* leaves the registry's syntaxes and their order exactly as they were before
\* the construction; the registry changes only when register is true and the
\* syntax was not yet registered.
C11_ConstructionLeavesRegistry ==
    Construction =>
        /\ ~last.options.register => syntaxes = last.pre
        /\ syntaxes # last.pre =>
              /\ last.options.register
              /\ \E i \in DOMAIN syntaxes :
                    syntaxes[i] # ID_TYPE_UNDEFINED /\ syntaxes[i] \notin Range(last.pre)

---------------------------------------------------------------------------
(* Properties of the values of an OloId, under SpecId *)

\* the value the argument of the constructor provides for the i-th name of the
\* syntax: a segment of the string, or the value at the key of the map
Provided(uri, syntax, sep, i) ==
    CASE uri.k = "string" -> At(Split(uri.v, sep), i)
      [] uri.k = "OloId"  -> Lookup(uri.v.uri, syntax[i])
      [] OTHER            -> Lookup(uri.v, syntax[i])

SeparatorFree(this) ==
    \A key \in DOMAIN this.uri : this.separator \notin Range(this.uri[key].v)

\* the OloId constructed from the string of this one, under its syntax and separator
Parsed(this) ==
    OloIdCtor(StringArg(toString(this)),
              Options(ArrayArg(this.syntax), FALSE, this.separator),
              separator, syntaxes)

\* C13: round trip: for every OloId built from values (strings or numbers the
\* constructor accepts) under a syntax, none of the values containing the
\* separator, constructing an OloId from the string toString() under that syntax
\* yields a toJSON() equal to the OloId's toJSON().
C13_RoundTrip ==
    (last.op = "OloId" /\ last.ok /\ SeparatorFree(last.result)) =>
        /\ Parsed(last.result).ok
        /\ toJSON(Parsed(last.result).obj) = toJSON(last.result)

---------------------------------------------------------------------------
(* Properties of the construction paths, under SpecSet *)

\* C14: no construction path raises an error: for every input kind (string,
\* key/value map, OloId, OloIdSet, OloIdMap) and every registry state,
\* constructing an OloId or OloIdSet completes and yields a well-formed object,
\* also when a supplied syntax or map key is unregistered or is ordered
\* differently from the registered syntax.
C14_ConstructionNeverThrows ==
    last.op \in {"OloId", "OloIdSet"} =>
        /\ last.ok
        /\ last.result.kind = last.op

---------------------------------------------------------------------------
(* Properties of empty and repeated registrations, under Spec *)

\* C15: when the query normalizes to empty (no argument, empty list, empty
\* string, empty map), getSyntaxes returns all registered syntaxes in
\* registration order and leaves the registry unchanged, also when register is
\* true.
C15_EmptyQueryReturnsAll ==
    (last.op = "getSyntaxes" /\ normSyntax(last.arg, separator) = <<>>) =>
        /\ last.result = [i \in DOMAIN last.pre |-> Split(last.pre[i], separator)]
        /\ syntaxes = last.pre

\* an empty map was resolved with register true while two syntaxes were registered
C15_Witness ==
    /\ last.op = "getSyntaxes"
    /\ last.arg = ObjectArg(<<>>)
    /\ last.options.register
    /\ Len(last.pre) >= 2
    /\ Len(last.result) = Len(last.pre)

\* the registry before the call holds a syntax of the names of the candidate
NamesRegistered(candidate) ==
    /\ normSyntax(candidate, separator) # <<>>
    /\ \E i \in DOMAIN last.pre :
          Range(Split(last.pre[i], separator)) = Range(normSyntax(candidate, separator))

\* C16: idempotence: registering a syntax that is already registered (same
\* names) leaves the number of registered syntaxes and their order unchanged,
\* for every registry state.
C16_RegisteringAgainChangesNothing ==
    (/\ last.op = "setSyntaxes"
     /\ last.arg.k = "array"
     /\ Len(last.arg.v) = 1
     /\ NamesRegistered(last.arg.v[1])) =>
        syntaxes = last.pre

\* every candidate of the list normalizes to empty
AllEmpty(list) ==
    /\ list.k = "array"
    /\ \A i \in DOMAIN list.v : normSyntax(list.v[i], separator) = <<>>

\* C17: registering a candidate that normalizes to empty (empty string, empty
\* list, only empty segments) is a no-op: the registry, including a present
\* sentinel, is unchanged and no error is raised.
C17_EmptyRegistrationIsNoOp ==
    (last.op \in {"setSyntaxes", "OloIdSyntax"} /\ AllEmpty(last.arg)) =>
        /\ last.ok
        /\ syntaxes = last.pre

\* a candidate of only empty segments was registered while the sentinel was held
C17_Witness ==
    /\ last.op = "setSyntaxes"
    /\ last.arg = ArrayArg(<<StringArg(<<separator>>)>>)
    /\ HoldsSentinel(last.pre)

\* the real syntaxes of a registry, in registration order
Real(set) == SetDelete(set, ID_TYPE_UNDEFINED)

IsPrefix(s, t) == Len(s) <= Len(t) /\ SubSeq(t, 1, Len(s)) = s

\* C18: monotonic growth: once a real (non-sentinel) syntax is in the registry it
\* is in the registry in every later state, and the relative registration order
\* of real syntaxes never changes, under any sequence of register, resolve and
\* construction operations.
C18_MonotonicGrowth == [][IsPrefix(Real(syntaxes), Real(syntaxes'))]_vars

\* a construction registered a real syntax after another one
C18_Witness ==
    /\ last.op = "OloIdSet"
    /\ Len(Real(last.pre)) >= 1
    /\ Len(Real(syntaxes)) = Len(Real(last.pre)) + 1

---------------------------------------------------------------------------
(* Properties of the members of an OloIdSet, under SpecSet *)

\* C19: in every OloIdSet, however constructed (from a string, a key/value map,
\* another OloIdSet or an OloIdMap), any two members that share a property name
\* hold the same value for it.
C19_MembersAgree ==
    (last.op = "OloIdSet" /\ last.ok) =>
        LET members == last.result.uri
        IN \A i, j \in DOMAIN members :
              \A key \in DOMAIN members[i].id.uri \cap DOMAIN members[j].id.uri :
                 members[i].id.uri[key] = members[j].id.uri[key]

\* the members of an OloIdMap: syntax, in its name order, and values of each
Members(map) == [i \in DOMAIN map |-> [syntax |-> map[i].id.syntax, uri |-> map[i].id.uri]]

\* the OloIdMap the construction was given, itself or in the OloIdSet given
Source == IF last.arg.k = "OloIdSet" THEN last.arg.v.uri ELSE last.arg.v

\* C20: an OloIdSet constructed from another OloIdSet, or from a pre-built
\* OloIdMap, has exactly the members of its source (same number of members, same
\* syntaxes in the same name order, same values), so its toString() and toJSON()
\* equal the source's.
C20_CopyHasTheMembersOfItsSource ==
    (last.op = "OloIdSet" /\ last.arg.k \in {"OloIdSet", "OloIdMap"} /\ last.ok) =>
        /\ Members(last.result.uri) = Members(Source)
        /\ setToString(last.result) = setToString([kind |-> "OloIdSet", uri |-> Source])
        /\ setToJSON(last.result.uri) = setToJSON(Source)

---------------------------------------------------------------------------
(* Properties of the copy of an OloId, under SpecId *)

\* C21: an OloId constructed from another OloId with no options is a copy: it
\* has the same syntax in the same name order, the same separator and the same
\* values, so toString(), toSyntaxString() and toJSON() agree with the source,
\* whether or not the source's syntax is registered.
C21_CopyOfAnOloId ==
    (last.op = "OloId" /\ last.arg.k = "OloId" /\ last.options = NoOptions /\ last.ok) =>
        /\ last.result.syntax = last.arg.v.syntax
        /\ last.result.separator = last.arg.v.separator
        /\ toJSON(last.result) = toJSON(last.arg.v)
        /\ toString(last.result) = toString(last.arg.v)
        /\ toSyntaxString(last.result) = toSyntaxString(last.arg.v)

---------------------------------------------------------------------------
(* Properties of the index of an OloIdSet, under SpecSet *)

\* C22: every member of an OloIdSet is indexed under the syntax string of that
\* member's own syntax, and no two members of one set have the same name set.
C22_IndexedByOwnSyntax ==
    (last.op = "OloIdSet" /\ last.ok) =>
        LET members == last.result.uri
        IN /\ \A i \in DOMAIN members : members[i].key = toSyntaxString(members[i].id)
           /\ \A i, j \in DOMAIN members :
                 Range(members[i].id.syntax) = Range(members[j].id.syntax) => i = j

---------------------------------------------------------------------------
(* Properties of the direction of isSame, under SpecId *)

\* the two OloIds agree on every property of the first
Agree(first, second) ==
    \A key \in DOMAIN first.uri : key \in DOMAIN second.uri /\ first.uri[key] = second.uri[key]

\* the property set of the first is a strict subset of that of the second
StrictSubset(first, second) ==
    DOMAIN first.uri \subseteq DOMAIN second.uri /\ DOMAIN first.uri # DOMAIN second.uri

\* C23: isSame is directional: for OloIds a and b where a's property set is a
\* strict subset of b's and the two agree on every property of a, a.isSame(b)
\* is true while b.isSame(a) is false.
C23_IsSameIsDirectional ==
    (last.op = "isSame" /\ last.this.kind = "OloId" /\ last.arg.k = "OloId") =>
        /\ (StrictSubset(last.this, last.arg.v) /\ Agree(last.this, last.arg.v)) =>
              /\ last.result
              /\ ~isSame(last.arg.v, OloIdArg(last.this), Undefined)
        /\ (StrictSubset(last.arg.v, last.this) /\ Agree(last.arg.v, last.this)) =>
              /\ ~last.result
              /\ isSame(last.arg.v, OloIdArg(last.this), Undefined)

\* the OloId of one property was compared with one of two that agrees with it,
\* and the other way round
C23_Witness ==
    /\ last.op = "isSame" /\ last.this.kind = "OloId" /\ last.arg.k = "OloId"
    /\ StrictSubset(last.this, last.arg.v) /\ Agree(last.this, last.arg.v)
    /\ last.result


\* the names for which the argument of isSame supplies a value
Supplied(this, identifier, syntax) ==
    CASE identifier.k = "OloId"  -> DOMAIN identifier.v.uri
      [] identifier.k = "object" ->
           {key \in DOMAIN identifier.v : identifier.v[key].t # "undefined"}
      [] identifier.k = "string" ->
           LET syntaxList == syntaxListOf(this, syntax)
               parts      == Split(identifier.v, this.separator)
           IN {key \in Range(syntaxList) :
                  Len(syntaxList) = 1 \/ LastIndex(syntaxList, key) \in DOMAIN parts}
      [] OTHER                   -> {}

\* the receiver has strictly more properties than the argument supplies, and
\* every property the argument supplies has the receiver's value
SuppliesOnlyASubset ==
    /\ last.op = "isSame" /\ last.this.kind = "OloId"
    /\ LET supplied == Supplied(last.this, last.arg, last.options.syntax)
           comp     == compId(last.this, last.arg, last.options.syntax)
       IN /\ supplied \subseteq DOMAIN last.this.uri
          /\ supplied # DOMAIN last.this.uri
          /\ \A key \in supplied : comp[key] = last.this.uri[key]

\* C24, as stated: an OloId whose syntax has strictly more properties than the
\* argument supplies reports isSame = true when every property the argument
\* does supply matches the receiver's value.
C24_SupersetReportsEquality == SuppliesOnlyASubset => last.result

\* C24, amended: an OloId whose syntax has strictly more properties than the
\* argument supplies reports isSame = false, also when every property the
\* argument does supply matches: a property the argument lacks compares
\* unequal to the value or the placeholder the receiver holds for it.
C24_SupersetNeverReportsEquality == SuppliesOnlyASubset => ~last.result

\* an OloId of two properties was compared with an argument that supplies one
\* of them, with the receiver's value
C24_Witness ==
    /\ SuppliesOnlyASubset
    /\ Supplied(last.this, last.arg, last.options.syntax) # {}

---------------------------------------------------------------------------
(* Properties of isSame with a string, under SpecId *)

\* list is a permutation of the names of syntax
Permutation(list, syntax) ==
    /\ Len(list) = Len(syntax)
    /\ Range(list) = Range(syntax)
    /\ Cardinality(Range(list)) = Len(list)

\* the string lists, at each position of list, the value this holds for the
\* name at that position
Lists(this, string, list) ==
    LET parts == Split(string, this.separator)
    IN \A i \in DOMAIN list :
          i \in DOMAIN parts /\ Str(parts[i]) = this.uri[list[i]]

\* C25: for an OloId built from a string under syntax S and any permutation P
\* of S, isSame(s, {syntax: P}) is true exactly when the string s lists,
\* positionally in the order of P, the receiver's values; a value of
\* "undefined" or a wrong value at any position gives false.
C25_StringComparedByPosition ==
    (/\ last.op = "isSame" /\ last.this.kind = "OloId" /\ last.arg.k = "string"
     /\ last.options.syntax.k # "undefined"
     /\ \A key \in DOMAIN last.this.uri : last.this.uri[key].t = "string"
     /\ Permutation(syntaxListOf(last.this, last.options.syntax), last.this.syntax)) =>
        last.result = Lists(last.this, last.arg.v, syntaxListOf(last.this, last.options.syntax))

---------------------------------------------------------------------------
(* Properties of the separator of an OloId, under Spec and SpecId *)

\* C26: when the first instance constructed in the process is an OloId (or an
\* OloIdSet) given a separator option s, the process-wide separator returned
\* by the registry afterwards is s.
C26_FirstOloIdSetsTheSeparator ==
    [][(/\ separator = undefined
        /\ last'.op \in {"OloId", "OloIdSet"}
        /\ last'.options.separator # undefined) =>
           separator' = last'.options.separator]_vars


\* C27: for an OloId constructed with separator option s and a syntax given as
\* a string of names joined by s, the OloId's syntax is the list of those names
\* (the syntax string is split on the separator that splits the value string),
\* also when s differs from the process-wide separator.
C27_SyntaxStringSplitBySeparatorOption ==
    (/\ last.op = "OloId" /\ last.ok
     /\ last.options.syntax.k = "string"
     /\ last.options.separator # undefined) =>
        last.result.syntax = Split(last.options.syntax.v, last.options.separator)

---------------------------------------------------------------------------
(* Properties of the default syntax of an OloId, under Spec *)

\* an OloId was constructed from a string with no syntax option
FromStringWithoutSyntax ==
    /\ last.op = "OloId" /\ last.ok
    /\ last.arg.k = "string"
    /\ last.options.syntax.k = "undefined"

\* C28: an OloId constructed from a string with no syntax option takes the
\* first syntax of the registry in registration order; whenever at least one
\* real syntax is registered that syntax is never the sentinel ["UNDEFINED"],
\* and the registry is never empty at that point, so the OloId always has a
\* non-empty syntax.
C28_FirstSyntaxOfTheRegistry ==
    (last.op = "OloId" /\ last.arg.k = "string" /\ last.options.syntax.k = "undefined") =>
        /\ last.ok
        /\ syntaxes # <<>>
        /\ last.result.syntax = getSyntaxMatrix(syntaxes, separator)[1]
        /\ last.result.syntax # <<>>
        /\ HoldsReal(last.pre) =>
              /\ last.result.syntax = Split(Real(last.pre)[1], separator)
              /\ last.result.syntax # <<ID_TYPE_UNDEFINED>>
        /\ ~HoldsReal(last.pre) => last.result.syntax = <<ID_TYPE_UNDEFINED>>

\* an OloId took the first of two real syntaxes of the registry
C28_Witness ==
    /\ FromStringWithoutSyntax
    /\ Len(Real(last.pre)) > 1
    /\ last.result.syntax = Split(Real(last.pre)[1], separator)

---------------------------------------------------------------------------
(* Properties of the values an OloId stores, under SpecId *)

\* C29: for every OloId id constructed from a string s under syntax S,
\* including strings with fewer segments than S has names,
\* id.isSame(s, {syntax: S}) is true: the comparison parses s the way the
\* constructor did.
C29_SameAsItsOwnString ==
    (/\ last.op = "OloId" /\ last.ok
     /\ last.arg.k = "string"
     /\ last.options.syntax.k = "array") =>
        isSame(last.result, last.arg, last.options.syntax)

\* C30: every property for which the source key/value map provides a value
\* (including the number 0 and the empty string) is stored in the OloId with
\* exactly that value; the placeholder "UNDEFINED" is stored only for
\* properties the source does not provide.
C30_ProvidedValuesStored ==
    (last.op = "OloId" /\ last.ok /\ last.arg.k = "object") =>
        \A key \in DOMAIN last.result.uri :
           IF key \in DOMAIN last.arg.v /\ last.arg.v[key].t # "undefined"
           THEN last.result.uri[key] = last.arg.v[key]
           ELSE last.result.uri[key] = Str(ID_PROP_UNDEFINED)

====
